---- MODULE Spec2Model ----
(***************************************************************************)
(* The native allocation registry of native_memory_demo.cpp: the ledger    *)
(* g_blocks, the three JNI entry points that allocate, release and report, *)
(* and the part of the operating system they talk to (mmap, munmap,        *)
(* malloc, free, memset).                                                  *)
(*                                                                         *)
(* Byte counts.  Every byte count the program computes is a multiple of    *)
(* 2^20: a block size is block_size_mb * 1024 * 1024 reduced modulo        *)
(* 2^(width of size_t), totals are sums of block sizes reduced modulo the  *)
(* same power of two, and 2^20 divides it.  The model therefore stores a   *)
(* byte count as its number of MiB (bytes / 2^20), which is lossless, and  *)
(* renders the full decimal byte count only where the program prints it.   *)
(***************************************************************************)
EXTENDS Integers, Sequences, FiniteSets

VARIABLES
    sizeBits,   \* width of size_t on the ABI the library was built for
    g_blocks,   \* the ledger: std::vector<NativeBlock>
    mem,        \* the operating system's view: address -> region
    ub,         \* TRUE once a primitive was called on a region it must not be
    last        \* the most recent call of an entry point and what it did

vars == <<sizeBits, g_blocks, mem, ub, last>>

----------------------------------------------------------------------------
(* Bounds of the model *)

\* number of distinct addresses the system can hand out
NAddr == 2
\* block_count is drawn from -1 .. MaxCount
MaxCount == 2
\* block_size_mb is drawn from -1 .. MaxMb and from the two values at 2^12
MaxMb == 1

----------------------------------------------------------------------------
(* Program constants *)

NULL == 0
MAP_FAILED == -1
\* 1024 * 1024 = 2^MbShift: the number of doublings that turn a MiB count
\* into a byte count
MbShift == 20
\* 2^32 bytes counted in MiB: static_cast<size_t>(x) * 1024 * 1024 with a
\* 32-bit size_t is reduced modulo this many MiB
WrapMb32 == 2 ^ (32 - MbShift)

Addr == 1 .. NAddr
CountInputs == -1 .. MaxCount
SizeInputs == (-1 .. MaxMb) \cup {WrapMb32, WrapMb32 + 1}

\* struct NativeBlock { void* ptr; size_t size; bool use_mmap; }
NativeBlock(ptr, size, use_mmap) ==
    [ptr |-> ptr, size |-> size, use_mmap |-> use_mmap]

NoRegion == [kind |-> "none", size |-> 0, filled |-> FALSE]

----------------------------------------------------------------------------
(* size_t arithmetic, in MiB *)

\* a size_t value: reduced modulo 2^32 bytes on a 32-bit ABI; on a 64-bit ABI
\* the modulus is 2^44 MiB, which no sum of the jint-sized operands reaches
SizeT(x) == IF sizeBits = 32 THEN x % WrapMb32 ELSE x

\* line 46: static_cast<size_t>(block_size_mb) * 1024 * 1024
BlockSize(block_size_mb) == SizeT(block_size_mb)

RECURSIVE SumSizes(_, _)
SumSizes(blocks, total) ==
    IF blocks = <<>> THEN total
    ELSE SumSizes(Tail(blocks), SizeT(total + Head(blocks).size))

\* total_allocated_bytes() over a ledger
TotalOf(blocks) == SumSizes(blocks, 0)

total_allocated_bytes == TotalOf(g_blocks)

----------------------------------------------------------------------------
(* The operating system's primitives.  A state of a call in progress is    *)
(* st = [blocks, mem, ub, calls]: calls is the sequence of primitive calls *)
(* the entry point has issued so far.                                      *)

Call(prim, ptr, size) == [prim |-> prim, ptr |-> ptr, size |-> size]

HeldMb(m) ==
    LET RECURSIVE Sum(_)
        Sum(S) == IF S = {} THEN 0
                  ELSE LET a == CHOOSE x \in S : TRUE IN m[a].size + Sum(S \ {a})
    IN Sum({a \in Addr : m[a].kind # "none"})

FreeAddrs(m) == {a \in Addr : m[a].kind = "none"}

\* a region of size fits when the address space of the ABI has room for it
Fits(m, size) == sizeBits = 64 \/ HeldMb(m) + size < WrapMb32

\* what mmap(nullptr, size, ...) can return: MAP_FAILED, always when the
\* length is 0 (EINVAL), or the address of a fresh mapping
MmapResults(m, size) ==
    {MAP_FAILED} \cup (IF size > 0 /\ Fits(m, size) THEN FreeAddrs(m) ELSE {})

\* what malloc(size) can return: a null pointer or the address of a fresh
\* allocation; malloc(0) may return either
MallocResults(m, size) ==
    {NULL} \cup (IF Fits(m, size) THEN FreeAddrs(m) ELSE {})

\* the system after a primitive returned r for a request of size bytes
Obtained(m, kind, r, size) ==
    IF r \in Addr
    THEN [m EXCEPT ![r] = [kind |-> kind, size |-> size, filled |-> FALSE]]
    ELSE m

\* memset(ptr, 0x5A, size)
Memset(st, ptr, size) ==
    LET ok == ptr \in Addr /\ st.mem[ptr].kind # "none" /\ size <= st.mem[ptr].size
    IN [st EXCEPT
           !.mem = IF ok /\ size = st.mem[ptr].size
                   THEN [@ EXCEPT ![ptr].filled = TRUE] ELSE @,
           !.ub = @ \/ ~ok,
           !.calls = Append(@, Call("memset", ptr, size))]

\* munmap(ptr, size)
Munmap(st, ptr, size) ==
    LET ok == ptr \in Addr /\ st.mem[ptr].kind = "mmap" /\ size = st.mem[ptr].size
    IN [st EXCEPT
           !.mem = IF ok THEN [@ EXCEPT ![ptr] = NoRegion] ELSE @,
           !.ub = @ \/ ~ok,
           !.calls = Append(@, Call("munmap", ptr, size))]

\* free(ptr)
Free(st, ptr) ==
    LET ok == ptr \in Addr /\ st.mem[ptr].kind = "malloc"
    IN [st EXCEPT
           !.mem = IF ok THEN [@ EXCEPT ![ptr] = NoRegion] ELSE @,
           !.ub = @ \/ ~ok,
           !.calls = Append(@, Call("free", ptr, 0))]

----------------------------------------------------------------------------
(* free_block, lines 26-35 *)

free_block(st, block) ==
    IF block.ptr = NULL \/ block.size = 0 THEN st
    ELSE IF block.use_mmap THEN Munmap(st, block.ptr, block.size)
    ELSE Free(st, block.ptr)

----------------------------------------------------------------------------
(* allocateNativeBlocks, lines 39-69 *)

\* the alternation started on the wrong parity
UseMmapOdd(i) == (i % 2 = 1)

\* line 48
UseMmap(i) == (i % 2 = 0)

\* lines 51-58: the values ptr can hold after the allocation of block i
PtrResults(st, use_mmap, block_size) ==
    IF use_mmap THEN MmapResults(st.mem, block_size)
    ELSE MallocResults(st.mem, block_size)

\* lines 53-55
FromMmap(r) == IF r = MAP_FAILED THEN NULL ELSE r

\* the descriptor inserted at the head of the ledger instead of its tail
LoopBodyPrepend(st, i, block_size, r) ==
    LET use_mmap == UseMmap(i)
        ptr == IF use_mmap THEN FromMmap(r) ELSE r
        got == [st EXCEPT
                   !.mem = Obtained(@, IF use_mmap THEN "mmap" ELSE "malloc",
                                    r, block_size),
                   !.calls = Append(@, Call(IF use_mmap THEN "mmap" ELSE "malloc",
                                            r, block_size))]
    IN IF ptr = NULL THEN got
       ELSE LET written == Memset(got, ptr, block_size)
            IN [written EXCEPT
                   !.blocks = <<NativeBlock(ptr, block_size, use_mmap)>> \o @]

\* the block appended without being written
LoopBodyNoFill(st, i, block_size, r) ==
    LET use_mmap == UseMmap(i)
        ptr == IF use_mmap THEN FromMmap(r) ELSE r
        got == [st EXCEPT
                   !.mem = Obtained(@, IF use_mmap THEN "mmap" ELSE "malloc",
                                    r, block_size),
                   !.calls = Append(@, Call(IF use_mmap THEN "mmap" ELSE "malloc",
                                            r, block_size))]
    IN IF ptr = NULL THEN got
       ELSE [got EXCEPT
                !.blocks = Append(@, NativeBlock(ptr, block_size, use_mmap))]

\* lines 48-65: one iteration of the loop, the primitive having returned r
LoopBody(st, i, block_size, r) ==
    LET use_mmap == UseMmap(i)
        ptr == IF use_mmap THEN FromMmap(r) ELSE r
        got == [st EXCEPT
                   !.mem = Obtained(@, IF use_mmap THEN "mmap" ELSE "malloc",
                                    r, block_size),
                   !.calls = Append(@, Call(IF use_mmap THEN "mmap" ELSE "malloc",
                                            r, block_size))]
    IN IF ptr = NULL THEN got
       ELSE LET written == Memset(got, ptr, block_size)
            IN [written EXCEPT
                   !.blocks = Append(@, NativeBlock(ptr, block_size, use_mmap))]

\* line 47: for (int i = 0; i < block_count; ++i)
LoopCond(i, block_count) == i < block_count

\* lines 47-66: the states the loop can end in, from iteration i on
RECURSIVE AllocLoop(_, _, _, _)
AllocLoop(st, i, block_count, block_size) ==
    IF ~LoopCond(i, block_count) THEN {st}
    ELSE UNION { AllocLoop(LoopBody(st, i, block_size, r), i + 1,
                           block_count, block_size) :
                 r \in PtrResults(st, UseMmap(i), block_size) }

\* the guard without its test of block_size_mb
InvalidRequestCountOnly(block_count, block_size_mb) == block_count <= 0

\* line 42
InvalidRequest(block_count, block_size_mb) ==
    block_count <= 0 \/ block_size_mb <= 0

Entry == [blocks |-> g_blocks, mem |-> mem, ub |-> ub, calls |-> <<>>]

NoOut == <<>>

Done(op, n, s, st, ret, out) ==
    /\ g_blocks' = st.blocks
    /\ mem' = st.mem
    /\ ub' = st.ub
    /\ last' = [op |-> op, count |-> n, mb |-> s, pre |-> g_blocks,
                calls |-> st.calls, ret |-> ret, out |-> out]
    /\ UNCHANGED sizeBits

\* allocate returning the bytes this call added instead of the total
AllocateReturnsDelta(block_count, block_size_mb) ==
    IF InvalidRequest(block_count, block_size_mb)
    THEN Done("allocate", block_count, block_size_mb, Entry,
              total_allocated_bytes, NoOut)
    ELSE \E st \in AllocLoop(Entry, 0, block_count, BlockSize(block_size_mb)) :
            Done("allocate", block_count, block_size_mb, st,
                 TotalOf(SubSeq(st.blocks, Len(g_blocks) + 1, Len(st.blocks))),
                 NoOut)

Allocate(block_count, block_size_mb) ==
    IF InvalidRequest(block_count, block_size_mb)
    THEN Done("allocate", block_count, block_size_mb, Entry,
              total_allocated_bytes, NoOut)
    ELSE \E st \in AllocLoop(Entry, 0, block_count, BlockSize(block_size_mb)) :
            Done("allocate", block_count, block_size_mb, st,
                 TotalOf(st.blocks), NoOut)

----------------------------------------------------------------------------
(* freeAllNativeBlocks, lines 71-80 *)

\* lines 75-77
RECURSIVE FreeLoop(_, _)
FreeLoop(st, blocks) ==
    IF blocks = <<>> THEN st
    ELSE FreeLoop(free_block(st, Head(blocks)), Tail(blocks))

\* the ledger left as it was, g_blocks.clear() forgotten
ClearedNot(st) == st

\* line 78: g_blocks.clear()
Cleared(st) == [st EXCEPT !.blocks = <<>>]

\* the total taken after the ledger was cleared instead of before
FreeAllTotalAfterClear ==
    LET st == Cleared(FreeLoop(Entry, g_blocks))
    IN Done("release", 0, 0, st, TotalOf(st.blocks), NoOut)

FreeAll ==
    LET before == total_allocated_bytes
    IN Done("release", 0, 0, Cleared(FreeLoop(Entry, g_blocks)), before, NoOut)

----------------------------------------------------------------------------
(* getNativeStats, lines 82-92 *)

DigitChar == <<"0", "1", "2", "3", "4", "5", "6", "7", "8", "9">>

\* the decimal digits of n, least significant first
RECURSIVE DigitsLsf(_)
DigitsLsf(n) == IF n < 10 THEN <<n>> ELSE <<n % 10>> \o DigitsLsf(n \div 10)

\* twice the number whose digits, least significant first, are ds
RECURSIVE DoubleLsf(_, _)
DoubleLsf(ds, carry) ==
    IF ds = <<>> THEN (IF carry = 0 THEN <<>> ELSE <<carry>>)
    ELSE LET v == 2 * Head(ds) + carry
         IN <<v % 10>> \o DoubleLsf(Tail(ds), v \div 10)

RECURSIVE Doubled(_, _)
Doubled(ds, k) == IF k = 0 THEN ds ELSE Doubled(DoubleLsf(ds, 0), k - 1)

Chars(lsf) == [i \in 1 .. Len(lsf) |-> DigitChar[lsf[Len(lsf) + 1 - i] + 1]]

\* std::to_string of an unsigned integer
to_string(n) == Chars(DigitsLsf(n))

\* std::to_string(bytes), bytes being mbs * 2^20
BytesToString(mbs) == Chars(Doubled(DigitsLsf(mbs), MbShift))

\* std::to_string of the double bytes / (1024.0 * 1024.0): "%f" of a whole
\* number of MiB, exactly representable
MbToString(mbs) == to_string(mbs) \o <<".", "0", "0", "0", "0", "0", "0">>

\* the byte field printing the MiB count
StatsStringMbAsBytes(blocks) ==
    LET bytes == TotalOf(blocks)
    IN <<"nativeBlocks=">> \o to_string(Len(blocks))
       \o <<"\nnativeBytes=">> \o to_string(bytes)
       \o <<"\nnativeMb=">> \o MbToString(bytes)

\* lines 88-90
StatsString(blocks) ==
    LET bytes == TotalOf(blocks)
    IN <<"nativeBlocks=">> \o to_string(Len(blocks))
       \o <<"\nnativeBytes=">> \o BytesToString(bytes)
       \o <<"\nnativeMb=">> \o MbToString(bytes)

Stats == Done("stats", 0, 0, Entry, 0, StatsString(g_blocks))

----------------------------------------------------------------------------
(* The registry *)

Init ==
    /\ sizeBits \in {32, 64}
    /\ g_blocks = <<>>
    /\ mem = [a \in Addr |-> NoRegion]
    /\ ub = FALSE
    /\ last = [op |-> "init", count |-> 0, mb |-> 0, pre |-> <<>>,
               calls |-> <<>>, ret |-> 0, out |-> NoOut]

Next ==
    \/ \E n \in CountInputs, s \in SizeInputs : Allocate(n, s)
    \/ FreeAll
    \/ Stats

Spec == Init /\ [][Next]_vars

----------------------------------------------------------------------------
(* Vocabulary of the properties *)

\* the sum of the sizes of a ledger, as a mathematical integer
RECURSIVE MathSum(_)
MathSum(blocks) ==
    IF blocks = <<>> THEN 0 ELSE Head(blocks).size + MathSum(Tail(blocks))

IsAlloc(c) == c.prim \in {"mmap", "malloc"}
IsDealloc(c) == c.prim \in {"munmap", "free"}

\* the allocation attempts of the last call, in the order they were made
AllocCalls == SelectSeq(last.calls, IsAlloc)
\* the deallocation calls of the last call, in the order they were made
DeallocCalls == SelectSeq(last.calls, IsDealloc)

FailedCall(c) == c.ptr \notin Addr
Successes == SelectSeq(AllocCalls, LAMBDA c : ~FailedCall(c))

\* the descriptors the last call appended
NewBlocks == SubSeq(g_blocks, Len(last.pre) + 1, Len(g_blocks))

IsPrefix(s, t) == Len(s) <= Len(t) /\ SubSeq(t, 1, Len(s)) = s

ValidAllocate ==
    last.op = "allocate" /\ last.count > 0 /\ last.mb > 0
NoOpAllocate ==
    last.op = "allocate" /\ (last.count <= 0 \/ last.mb <= 0)
NoFailures ==
    Len(AllocCalls) = last.count /\ \A i \in 1 .. Len(AllocCalls) : ~FailedCall(AllocCalls[i])

\* the deallocation call that matches a descriptor's origin
Matching(block) ==
    IF block.use_mmap THEN Call("munmap", block.ptr, block.size)
    ELSE Call("free", block.ptr, 0)

\* the ledger and the system agree: every descriptor names a distinct region
\* the system holds, of the descriptor's origin and size
LedgerHeld ==
    /\ \A i \in 1 .. Len(g_blocks) :
          /\ g_blocks[i].ptr \in Addr
          /\ mem[g_blocks[i].ptr].kind =
                (IF g_blocks[i].use_mmap THEN "mmap" ELSE "malloc")
          /\ mem[g_blocks[i].ptr].size = g_blocks[i].size
    /\ \A i, j \in 1 .. Len(g_blocks) :
          g_blocks[i].ptr = g_blocks[j].ptr => i = j

\* every region the system holds is in the ledger
NothingLost ==
    \A a \in Addr : mem[a].kind # "none" =>
        \E i \in 1 .. Len(g_blocks) : g_blocks[i].ptr = a

\* the fields of a stats string
StatLabels == {"nativeBlocks=", "\nnativeBytes=", "\nnativeMb="}
LabelAt(out, label) == CHOOSE i \in 1 .. Len(out) : out[i] = label
FieldEnd(out, from) ==
    IF \E j \in from .. Len(out) : out[j] \in StatLabels
    THEN (CHOOSE j \in from .. Len(out) :
             /\ out[j] \in StatLabels
             /\ \A k \in from .. j - 1 : out[k] \notin StatLabels) - 1
    ELSE Len(out)
Field(out, label) ==
    SubSeq(out, LabelAt(out, label) + 1, FieldEnd(out, LabelAt(out, label) + 1))

CharDigit(c) == CHOOSE d \in 0 .. 9 : DigitChar[d + 1] = c
\* the number a string of decimal digits denotes
RECURSIVE DecValue(_, _)
DecValue(chars, acc) ==
    IF chars = <<>> THEN acc
    ELSE DecValue(Tail(chars), 10 * acc + CharDigit(Head(chars)))

\* half the number whose decimal digits, most significant first, are ds
RECURSIVE HalfMsf(_, _)
HalfMsf(ds, rem) ==
    IF ds = <<>> THEN <<>>
    ELSE LET v == 10 * rem + Head(ds)
         IN <<v \div 2>> \o HalfMsf(Tail(ds), v % 2)

RECURSIVE HalvedTimes(_, _)
HalvedTimes(ds, k) == IF k = 0 THEN ds ELSE HalvedTimes(HalfMsf(ds, 0), k - 1)

RECURSIVE DividesPow2(_, _)
DividesPow2(ds, k) ==
    \/ k = 0
    \/ /\ ds # <<>>
       /\ ds[Len(ds)] % 2 = 0
       /\ DividesPow2(HalfMsf(ds, 0), k - 1)

RECURSIVE DigitsValue(_, _)
DigitsValue(ds, acc) ==
    IF ds = <<>> THEN acc ELSE DigitsValue(Tail(ds), 10 * acc + Head(ds))

\* a decimal string states the byte count of mbs MiB: it is a multiple of
\* 1024 * 1024 and its quotient by 1024 * 1024 is mbs
StatesBytes(chars, mbs) ==
    LET ds == [i \in 1 .. Len(chars) |-> CharDigit(chars[i])]
    IN /\ chars # <<>>
       /\ \A i \in 1 .. Len(chars) : chars[i] \in {DigitChar[d] : d \in 1 .. 10}
       /\ DividesPow2(ds, 20)
       /\ DigitsValue(HalvedTimes(ds, 20), 0) = mbs

----------------------------------------------------------------------------
(* C1 *)

\* C1: every region the registry obtained is returned exactly once and with
\* the primitive that matches its origin (munmap with the same address and
\* size, free with the same address), nothing is released twice, with the
\* other primitive or while not in the ledger, and after release_all no
\* region obtained earlier is still held.
C1_ReleasedOnceMatching ==
    /\ ~ub
    /\ LedgerHeld
    /\ NothingLost
    /\ last.op = "release" =>
          /\ Len(DeallocCalls) = Len(last.pre)
          /\ \A i \in 1 .. Len(last.pre) : DeallocCalls[i] = Matching(last.pre[i])
          /\ \A a \in Addr : mem[a].kind = "none"
    /\ last.op # "release" => DeallocCalls = <<>>

----------------------------------------------------------------------------
(* C2 *)

\* C2: allocate(n, s) with n > 0, s > 0 and every underlying allocation
\* succeeding adds exactly n descriptors, each of s MiB (s * 1048576 bytes),
\* and returns the total before the call plus n * s MiB.
C2_AllocateAddsRequested ==
    (ValidAllocate /\ NoFailures) =>
        /\ Len(g_blocks) = Len(last.pre) + last.count
        /\ \A i \in 1 .. Len(NewBlocks) : NewBlocks[i].size = last.mb
        /\ last.ret = MathSum(last.pre) + last.count * last.mb
        /\ last.ret = MathSum(g_blocks)

----------------------------------------------------------------------------
(* C3 *)

\* C3: allocate with block_count <= 0 or block_size_mb <= 0 invokes no
\* primitive, leaves the ledger as it was and returns the current total.
C3_InvalidRequestIsNoOp ==
    NoOpAllocate =>
        /\ last.calls = <<>>
        /\ g_blocks = last.pre
        /\ last.ret = MathSum(g_blocks)

\* allocate(-1, s) after allocate(2, 1) returned 2 MiB
C3_Witness ==
    /\ NoOpAllocate
    /\ last.count = -1
    /\ Len(g_blocks) = 2
    /\ \A i \in 1 .. 2 : g_blocks[i].size = 1
    /\ last.ret = 2

----------------------------------------------------------------------------
(* C4 *)

\* C4: release_all returns the byte total stats would have reported just
\* before it, the sum of the sizes then in the ledger, and leaves the ledger
\* empty; stats on the empty ledger reports 0 blocks and 0 bytes.
C4_ReleaseReturnsTotal ==
    /\ last.op = "release" =>
          /\ last.ret = MathSum(last.pre)
          /\ StatesBytes(Field(StatsString(last.pre), "\nnativeBytes="), last.ret)
          /\ g_blocks = <<>>
    /\ (last.op = "stats" /\ last.pre = <<>>) =>
          /\ Field(last.out, "nativeBlocks=") = <<"0">>
          /\ Field(last.out, "\nnativeBytes=") = <<"0">>

\* allocate(1, 1) then release_all, which returns 1048576
C4_Witness ==
    /\ last.op = "release"
    /\ Len(last.pre) = 1
    /\ last.ret = 1
    /\ Field(StatsString(last.pre), "\nnativeBytes=")
          = <<"1", "0", "4", "8", "5", "7", "6">>
    /\ g_blocks = <<>>

----------------------------------------------------------------------------
(* C5 *)

\* C5: a failing block is skipped and every later index is still attempted:
\* with F the failing indices of allocate(n, s), n attempts are made, n - |F|
\* descriptors are appended after the untouched earlier ledger, and the
\* returned total is the total before plus (n - |F|) * s MiB.
C5_FailuresSkipped ==
    ValidAllocate =>
        /\ Len(AllocCalls) = last.count
        /\ IsPrefix(last.pre, g_blocks)
        /\ Len(NewBlocks) = Len(Successes)
        /\ \A i \in 1 .. Len(NewBlocks) : NewBlocks[i].ptr = Successes[i].ptr
        /\ last.ret = MathSum(last.pre) + Len(Successes) * last.mb
        /\ last.ret - MathSum(last.pre) >= 0
        /\ last.ret - MathSum(last.pre) <= last.count * last.mb

----------------------------------------------------------------------------
(* C6 *)

\* C6: in every reachable state every descriptor in the ledger has a non-null
\* address and a strictly positive size.
C6_DescriptorsLive ==
    \A i \in 1 .. Len(g_blocks) :
        g_blocks[i].ptr # NULL /\ g_blocks[i].size > 0

----------------------------------------------------------------------------
(* C7 *)

\* C7: release_all on an empty ledger invokes neither munmap nor free,
\* returns 0 and leaves the ledger empty; every release_all leaves the ledger
\* empty, so of two successive release_all calls the second returns 0.
C7_ReleaseOnEmpty ==
    /\ last.op = "release" => g_blocks = <<>>
    /\ (last.op = "release" /\ last.pre = <<>>) =>
          /\ last.calls = <<>>
          /\ last.ret = 0

\* release_all on an empty ledger
C7_Witness ==
    /\ last.op = "release"
    /\ last.pre = <<>>
    /\ last.ret = 0
    /\ g_blocks = <<>>

----------------------------------------------------------------------------
(* C8 *)

\* C8: block i of an allocate call (i counted from 0 in every call) is
\* obtained by mmap when i is even and by malloc when i is odd, and the tag
\* stored in its descriptor is the origin used; for even N without failures
\* N/2 descriptors carry each tag and the odd-indexed ones the heap tag.
C8_OriginAlternates ==
    /\ ValidAllocate =>
          /\ Len(AllocCalls) = last.count
          /\ \A i \in 1 .. Len(AllocCalls) :
                AllocCalls[i].prim = (IF (i - 1) % 2 = 0 THEN "mmap" ELSE "malloc")
          /\ \A i \in 1 .. Len(NewBlocks) :
                /\ i <= Len(Successes)
                /\ NewBlocks[i].ptr = Successes[i].ptr
                /\ NewBlocks[i].use_mmap = (Successes[i].prim = "mmap")
          /\ (NoFailures /\ last.count % 2 = 0) =>
                /\ Len(NewBlocks) = last.count
                /\ Cardinality({i \in 1 .. Len(NewBlocks) : NewBlocks[i].use_mmap})
                      = last.count \div 2
                /\ Cardinality({i \in 1 .. Len(NewBlocks) : ~NewBlocks[i].use_mmap})
                      = last.count \div 2
                /\ \A i \in 1 .. Len(NewBlocks) :
                      (i - 1) % 2 = 1 => ~NewBlocks[i].use_mmap
    /\ \A i \in 1 .. Len(g_blocks) :
          g_blocks[i].ptr \in Addr =>
              g_blocks[i].use_mmap = (mem[g_blocks[i].ptr].kind = "mmap")

\* allocate(2, s) without failures: one page-mapped block, then one heap block
C8_Witness ==
    /\ ValidAllocate
    /\ NoFailures
    /\ last.count = 2
    /\ Len(NewBlocks) = 2
    /\ NewBlocks[1].use_mmap
    /\ ~NewBlocks[2].use_mmap

----------------------------------------------------------------------------
(* C9 *)

Sizes(blocks) == [i \in 1 .. Len(blocks) |-> blocks[i].size]
Ptrs(blocks) == [i \in 1 .. Len(blocks) |-> blocks[i].ptr]

\* the system as it was before the last call, which only allocated
MemBefore ==
    [x \in Addr |->
        IF \E i \in 1 .. Len(NewBlocks) : NewBlocks[i].ptr = x
        THEN NoRegion ELSE mem[x]]

\* the outcomes of a single allocate(n, s) without failures, made in the
\* state the last call was made in
SingleCall(n, s) ==
    {st \in AllocLoop([blocks |-> last.pre, mem |-> MemBefore, ub |-> ub,
                       calls |-> <<>>], 0, n, BlockSize(s)) :
        LET allocs == SelectSeq(st.calls, IsAlloc)
        IN Len(allocs) = n /\ \A i \in 1 .. n : ~FailedCall(allocs[i])}

\* a step is the second of two successive allocate calls of the same block
\* size, neither with a failure
TwoAllocates ==
    /\ ValidAllocate /\ NoFailures
    /\ ValidAllocate' /\ NoFailures'
    /\ last'.mb = last.mb
    /\ last'.pre = g_blocks

AdditiveStep ==
    TwoAllocates =>
        LET single == SingleCall(last.count + last'.count, last.mb)
        IN /\ \A st \in single :
                 /\ Len(st.blocks) = Len(g_blocks')
                 /\ Sizes(st.blocks) = Sizes(g_blocks')
                 /\ TotalOf(st.blocks) = last'.ret
                 /\ StatsString(st.blocks) = StatsString(g_blocks')
           /\ \E st \in single : Ptrs(st.blocks) = Ptrs(g_blocks')

\* C9: allocate(a, s) followed by allocate(b, s), without failures, leaves
\* the same block count, sizes and total, and returns the same value, as a
\* single allocate(a + b, s) made in the same starting state; the ledgers
\* differ at most in the origin tags.
C9_Additivity == [][AdditiveStep]_vars

\* allocate(1, s) twice: two page-mapped blocks, where allocate(2, s) would
\* have made the second a heap block
C9_Witness ==
    /\ ValidAllocate /\ NoFailures
    /\ last.count = 1
    /\ Len(last.pre) = 1
    /\ Len(g_blocks) = 2
    /\ g_blocks[1].use_mmap /\ g_blocks[2].use_mmap
    /\ g_blocks[1].size = g_blocks[2].size
    /\ last.ret = MathSum(g_blocks)

----------------------------------------------------------------------------
(* C10 *)

StatsReportsLedger ==
    last.op = "stats" =>
        /\ DecValue(Field(last.out, "nativeBlocks="), 0) = Len(g_blocks)
        /\ StatesBytes(Field(last.out, "\nnativeBytes="), MathSum(g_blocks))
        /\ g_blocks = last.pre
        /\ last.calls = <<>>

StatsStep ==
    last'.op = "stats" =>
        /\ g_blocks' = g_blocks /\ mem' = mem /\ ub' = ub
        /\ last.op = "allocate" =>
              StatesBytes(Field(last'.out, "\nnativeBytes="), last.ret)
        /\ last.op = "release" =>
              Field(last'.out, "\nnativeBytes=") = <<"0">>
        /\ last.op = "stats" => last'.out = last.out

\* C10: stats reports the number of descriptors in the ledger and the sum of
\* their sizes, which is the value the most recent allocate returned, or 0
\* after release_all; it leaves the ledger unchanged and invokes no primitive.
C10_StatsIsPureRead == [](StatsReportsLedger) /\ [][StatsStep]_vars

\* stats after allocate(1, 1): one block, 1048576 bytes
C10_Witness ==
    /\ last.op = "stats"
    /\ Len(g_blocks) = 1
    /\ last.out = <<"nativeBlocks=", "1",
                    "\nnativeBytes=", "1", "0", "4", "8", "5", "7", "6",
                    "\nnativeMb=", "1", ".", "0", "0", "0", "0", "0", "0">>

----------------------------------------------------------------------------
(* C11 *)

\* C11: for every positive block_size_mb the size recorded in each descriptor
\* allocate appends is the mathematical product block_size_mb * 1024 * 1024
\* (block_size_mb MiB), whatever the width of size_t, and the value allocate
\* and release_all return is non-negative and the mathematical sum of the
\* descriptor sizes.
C11_SizeIsExactProduct ==
    /\ ValidAllocate =>
          \A i \in 1 .. Len(NewBlocks) : NewBlocks[i].size = last.mb
    /\ last.op = "allocate" => (last.ret >= 0 /\ last.ret = MathSum(g_blocks))
    /\ last.op = "release" => (last.ret >= 0 /\ last.ret = MathSum(last.pre))

----------------------------------------------------------------------------
(* C12 *)

\* C12: an allocate call appends its successful blocks in increasing index
\* order after all descriptors of earlier calls, and release_all invokes the
\* deallocation primitives in that insertion order over the whole sequence
\* in the ledger, one call for each descriptor, before the ledger is cleared.
C12_InsertionOrder ==
    /\ ValidAllocate =>
          /\ IsPrefix(last.pre, g_blocks)
          /\ Ptrs(NewBlocks) = [i \in 1 .. Len(Successes) |-> Successes[i].ptr]
    /\ last.op = "release" =>
          /\ DeallocCalls = [i \in 1 .. Len(last.pre) |-> Matching(last.pre[i])]
          /\ g_blocks = <<>>

----------------------------------------------------------------------------
(* C13 *)

LedgerStep ==
    /\ last'.op = "allocate" =>
          /\ IsPrefix(g_blocks, g_blocks')
          /\ SelectSeq(last'.calls, IsDealloc) = <<>>
          /\ \A a \in Addr : mem[a].kind # "none" => mem'[a] = mem[a]
    /\ last'.op = "stats" => (g_blocks' = g_blocks /\ mem' = mem)
    /\ last'.op = "release" => g_blocks' = <<>>
    /\ ~IsPrefix(g_blocks, g_blocks') => (last'.op = "release" /\ g_blocks' = <<>>)

----------------------------------------------------------------------------
(* C14 *)

\* C14: every block is overwritten over its full recorded size right after
\* its allocation succeeded, so every descriptor in the ledger refers to a
\* fully written region; memset is never called for a block whose allocation
\* failed, nor on a region that is not held, nor outside allocate.
C14_FullyWritten ==
    /\ \A i \in 1 .. Len(g_blocks) :
          /\ g_blocks[i].ptr \in Addr
          /\ mem[g_blocks[i].ptr].filled
          /\ mem[g_blocks[i].ptr].size = g_blocks[i].size
    /\ \A k \in 1 .. Len(last.calls) :
          /\ last.calls[k].prim = "memset" =>
                /\ last.op = "allocate"
                /\ last.calls[k].ptr \in Addr
                /\ k > 1
                /\ IsAlloc(last.calls[k - 1])
                /\ last.calls[k - 1].ptr = last.calls[k].ptr
                /\ last.calls[k - 1].size = last.calls[k].size
          /\ (IsAlloc(last.calls[k]) /\ ~FailedCall(last.calls[k])) =>
                /\ k < Len(last.calls)
                /\ last.calls[k + 1]
                      = Call("memset", last.calls[k].ptr, last.calls[k].size)
    /\ ValidAllocate =>
          \A i \in 1 .. Len(NewBlocks) :
              \E k \in 1 .. Len(last.calls) :
                  last.calls[k]
                      = Call("memset", NewBlocks[i].ptr, NewBlocks[i].size)

\* allocate(2, 1) whose mmap failed and whose malloc succeeded: one memset,
\* of the heap block, over its 1 MiB
C14_Witness ==
    /\ ValidAllocate
    /\ Len(last.calls) = 3
    /\ last.calls[1] = Call("mmap", MAP_FAILED, 1)
    /\ last.calls[2].prim = "malloc"
    /\ last.calls[3] = Call("memset", last.calls[2].ptr, 1)
    /\ Len(NewBlocks) = 1
    /\ mem[NewBlocks[1].ptr].filled

----------------------------------------------------------------------------
(* C15 *)

\* free_block calls no primitive for a descriptor with a null address or a
\* size of 0: every deallocation call of a release_all is for a descriptor of
\* the ledger with a non-null address and a non-zero size
SkipsDeadDescriptors ==
    last.op = "release" =>
        \A k \in 1 .. Len(DeallocCalls) :
            \E i \in 1 .. Len(last.pre) :
                /\ last.pre[i].ptr # NULL
                /\ last.pre[i].size # 0
                /\ DeallocCalls[k] = Matching(last.pre[i])

\* C15: free_block calls no primitive for a descriptor with a null address
\* or a size of 0, no such descriptor is in the ledger, and every release_all
\* makes exactly one munmap or free call per descriptor: their number is the
\* block count stats reported just before.
C15_OnePrimitivePerDescriptor ==
    /\ SkipsDeadDescriptors
    /\ \A i \in 1 .. Len(g_blocks) :
          ~(g_blocks[i].ptr = NULL \/ g_blocks[i].size = 0)
    /\ last.op = "release" =>
          /\ Len(DeallocCalls) = Len(last.pre)
          /\ Len(DeallocCalls)
                = DecValue(Field(StatsString(last.pre), "nativeBlocks="), 0)

====
